---- MODULE Spec2Model ----
(***************************************************************************)
(* Response-recovery pipeline of the travel planner                        *)
(* (src/services/geminiService.ts): extractJsonFromString and              *)
(* generateItinerary.                                                      *)
(*                                                                         *)
(* A text is a sequence of one-character strings.  String positions are    *)
(* 0-based as in JavaScript (indexOf, lastIndexOf, substring); -1 means    *)
(* "not found".  JavaScript values are tagged records, see JUndefined ...  *)
(* JObj.  Texts range over an alphabet without the backslash, so string    *)
(* literals have no escape sequences; number literals are integers.        *)
(***************************************************************************)
EXTENDS Integers, Sequences, FiniteSets, TLC

(***************************************************************************)
(* Bounds                                                                  *)
(***************************************************************************)
\* the longest text the extractor is tried on exhaustively
MaxLen == 5

(***************************************************************************)
(* JavaScript string primitives                                            *)
(***************************************************************************)
WhiteSpace == {" ", "\n", "\t", "\r"}

\* the 0-based position of the first c at or after the 1-based position p
IndexFrom(s, c, p) ==
  IF \E q \in p..Len(s) : s[q] = c
  THEN (CHOOSE q \in p..Len(s) : s[q] = c /\ \A r \in p..(q - 1) : s[r] # c) - 1
  ELSE -1

indexOf(s, c) == IndexFrom(s, c, 1)

lastIndexOf(s, c) ==
  IF \E q \in 1..Len(s) : s[q] = c
  THEN (CHOOSE q \in 1..Len(s) : s[q] = c /\ \A r \in (q + 1)..Len(s) : s[r] # c) - 1
  ELSE -1

\* s.substring(from, to): characters at 0-based positions from .. to-1
substring(s, from, to) == SubSeq(s, from + 1, to)

\* s[i] with a 0-based index
charAt(s, i) == s[i + 1]

\* position after the greedy run of white space starting at p
SkipWs(s, p) ==
  IF \A q \in p..Len(s) : s[q] \in WhiteSpace THEN Len(s) + 1
  ELSE CHOOSE q \in p..Len(s) :
         s[q] \notin WhiteSpace /\ \A r \in p..(q - 1) : s[r] \in WhiteSpace

\* position before the run of white space that ends the text
LastNonWs(s) ==
  IF \A q \in 1..Len(s) : s[q] \in WhiteSpace THEN 0
  ELSE CHOOSE q \in 1..Len(s) :
         s[q] \notin WhiteSpace /\ \A r \in (q + 1)..Len(s) : s[r] \in WhiteSpace

trim(s) == SubSeq(s, SkipWs(s, 1), LastNonWs(s))

\* does the word w occur in s starting at 1-based position p
StartsAt(s, w, p) ==
  /\ p + Len(w) - 1 <= Len(s)
  /\ \A k \in 1..Len(w) : s[p + k - 1] = w[k]

\* s.includes(w)
includes(s, w) == \E p \in 1..(Len(s) + 1) : StartsAt(s, w, p)

(***************************************************************************)
(* The fence pattern of extractJsonFromString: three backticks, an         *)
(* optional language tag json, javascript or text, and a greedy run of     *)
(* white space; every match is removed.  The backtick cannot be written    *)
(* inside a TLA+ string, so the atom Backtick stands for that character.   *)
(***************************************************************************)
Backtick == "BACKTICK"
Fence == <<Backtick, Backtick, Backtick>>
TagJson == <<"j", "s", "o", "n">>
TagJavascript == <<"j", "a", "v", "a", "s", "c", "r", "i", "p", "t">>
TagText == <<"t", "e", "x", "t">>

\* position after the optional language tag that may follow a fence at p
AfterTag(s, p) ==
  IF StartsAt(s, TagJson, p) THEN p + Len(TagJson)
  ELSE IF StartsAt(s, TagJavascript, p) THEN p + Len(TagJavascript)
  ELSE IF StartsAt(s, TagText, p) THEN p + Len(TagText)
  ELSE p

\* the 1-based position of the first fence at or after p, 0 when none
NextFence(s, p) ==
  IF \E q \in p..Len(s) : StartsAt(s, Fence, q)
  THEN CHOOSE q \in p..Len(s) :
         StartsAt(s, Fence, q) /\ \A r \in p..(q - 1) : ~StartsAt(s, Fence, r)
  ELSE 0

\* input.replace(pattern, empty), scanning left to right from position p:
\* a match is the fence, the tag if one follows, and the white space after
RECURSIVE RemoveFencesFrom(_, _)
RemoveFencesFrom(s, p) ==
  LET f == NextFence(s, p)
  IN IF f = 0 THEN SubSeq(s, p, Len(s))
     ELSE SubSeq(s, p, f - 1)
            \o RemoveFencesFrom(s, SkipWs(s, AfterTag(s, f + Len(Fence))))

RemoveFences(s) == RemoveFencesFrom(s, 1)

(***************************************************************************)
(* JavaScript values                                                       *)
(***************************************************************************)
JUndefined == [t |-> "undefined"]
JNull == [t |-> "null"]
JNaN == [t |-> "nan"]
JBool(b) == [t |-> "bool", b |-> b]
JNum(n) == [t |-> "num", n |-> n]
JStr(cs) == [t |-> "str", s |-> cs]
JArr(xs) == [t |-> "arr", a |-> xs]
\* an object is its members, [k |-> key text, v |-> value], in insertion order
JObj(ms) == [t |-> "obj", o |-> ms]

\* ToBoolean
Truthy(v) ==
  CASE v.t = "undefined" -> FALSE
    [] v.t = "null" -> FALSE
    [] v.t = "nan" -> FALSE
    [] v.t = "bool" -> v.b
    [] v.t = "num" -> v.n # 0
    [] v.t = "str" -> v.s # <<>>
    [] OTHER -> TRUE

IsArray(v) == v.t = "arr"

HasKey(ms, k) == \E i \in 1..Len(ms) : ms[i].k = k

\* property read v.k (undefined when v has no such property)
Get(v, k) ==
  IF v.t = "obj" /\ HasKey(v.o, k)
  THEN (v.o[CHOOSE i \in 1..Len(v.o) : v.o[i].k = k]).v
  ELSE JUndefined

\* property write on a member list: replace in place, else append
SetKey(ms, k, val) ==
  IF HasKey(ms, k)
  THEN [i \in 1..Len(ms) |-> IF ms[i].k = k THEN [k |-> k, v |-> val] ELSE ms[i]]
  ELSE Append(ms, [k |-> k, v |-> val])

(***************************************************************************)
(* JSON.parse                                                              *)
(***************************************************************************)
Digits == <<"0", "1", "2", "3", "4", "5", "6", "7", "8", "9">>
IsDigit(c) == \E d \in 1..10 : Digits[d] = c
DigitVal(c) == (CHOOSE d \in 1..10 : Digits[d] = c) - 1

LitTrue == <<"t", "r", "u", "e">>
LitFalse == <<"f", "a", "l", "s", "e">>
LitNull == <<"n", "u", "l", "l">>

ParseFail == [ok |-> FALSE, val |-> JUndefined, next |-> 0]
ParseOk(v, n) == [ok |-> TRUE, val |-> v, next |-> n]

\* the string literal opening at p: it ends at the next quote, and holds no
\* control character
ParseString(s, p) ==
  LET q == IndexFrom(s, "\"", p + 1) + 1
  IN IF q = 0 THEN ParseFail
     ELSE IF \E k \in (p + 1)..(q - 1) : s[k] \in {"\n", "\t", "\r"} THEN ParseFail
     ELSE ParseOk(JStr(SubSeq(s, p + 1, q - 1)), q + 1)

RECURSIVE DigitRun(_, _, _)
DigitRun(s, p, acc) ==
  IF p <= Len(s) /\ IsDigit(s[p])
  THEN DigitRun(s, p + 1, 10 * acc + DigitVal(s[p]))
  ELSE [n |-> acc, next |-> p]

\* an unsigned integer literal at p: 0, or a nonzero digit and a digit run
ParseUnsigned(s, p) ==
  IF p > Len(s) \/ ~IsDigit(s[p]) THEN ParseFail
  ELSE IF s[p] = "0" THEN ParseOk(JNum(0), p + 1)
  ELSE LET r == DigitRun(s, p, 0) IN ParseOk(JNum(r.n), r.next)

ParseNumber(s, p) ==
  IF s[p] = "-"
  THEN LET r == ParseUnsigned(s, p + 1)
       IN IF r.ok THEN ParseOk(JNum(0 - r.val.n), r.next) ELSE ParseFail
  ELSE ParseUnsigned(s, p)

RECURSIVE ParseValue(_, _), ParseElements(_, _, _), ParseMembers(_, _, _)

ParseValue(s, p) ==
  IF p > Len(s) THEN ParseFail
  ELSE CASE s[p] = "{" ->
              LET q == SkipWs(s, p + 1)
              IN IF q <= Len(s) /\ s[q] = "}" THEN ParseOk(JObj(<<>>), q + 1)
                 ELSE ParseMembers(s, q, <<>>)
         [] s[p] = "[" ->
              LET q == SkipWs(s, p + 1)
              IN IF q <= Len(s) /\ s[q] = "]" THEN ParseOk(JArr(<<>>), q + 1)
                 ELSE ParseElements(s, q, <<>>)
         [] s[p] = "\"" -> ParseString(s, p)
         [] s[p] = "-" \/ IsDigit(s[p]) -> ParseNumber(s, p)
         [] StartsAt(s, LitTrue, p) -> ParseOk(JBool(TRUE), p + Len(LitTrue))
         [] StartsAt(s, LitFalse, p) -> ParseOk(JBool(FALSE), p + Len(LitFalse))
         [] StartsAt(s, LitNull, p) -> ParseOk(JNull, p + Len(LitNull))
         [] OTHER -> ParseFail

\* value (ws , ws value)* ws ]
ParseElements(s, p, acc) ==
  LET r == ParseValue(s, p)
  IN IF ~r.ok THEN ParseFail
     ELSE LET q == SkipWs(s, r.next)
          IN IF q > Len(s) THEN ParseFail
             ELSE IF s[q] = "," THEN ParseElements(s, SkipWs(s, q + 1), Append(acc, r.val))
             ELSE IF s[q] = "]" THEN ParseOk(JArr(Append(acc, r.val)), q + 1)
             ELSE ParseFail

\* string ws : ws value (ws , ws member)* ws }   (a repeated key keeps its
\* first position and takes the last value)
ParseMembers(s, p, acc) ==
  IF p > Len(s) \/ s[p] # "\"" THEN ParseFail
  ELSE LET k == ParseString(s, p)
       IN IF ~k.ok THEN ParseFail
          ELSE LET c == SkipWs(s, k.next)
               IN IF c > Len(s) \/ s[c] # ":" THEN ParseFail
                  ELSE LET r == ParseValue(s, SkipWs(s, c + 1))
                       IN IF ~r.ok THEN ParseFail
                          ELSE LET q == SkipWs(s, r.next)
                                   ms == SetKey(acc, k.val.s, r.val)
                               IN IF q > Len(s) THEN ParseFail
                                  ELSE IF s[q] = "," THEN ParseMembers(s, SkipWs(s, q + 1), ms)
                                  ELSE IF s[q] = "}" THEN ParseOk(JObj(ms), q + 1)
                                  ELSE ParseFail

\* JSON.parse(s): ok = FALSE stands for the SyntaxError it throws
JSONParse(s) ==
  LET r == ParseValue(s, SkipWs(s, 1))
  IN IF r.ok /\ SkipWs(s, r.next) = Len(s) + 1 THEN r ELSE ParseFail

(***************************************************************************)
(* extractJsonFromString                                                   *)
(***************************************************************************)
NoMatch == [t |-> "null"]
Candidate(cs) == [t |-> "str", s |-> cs]

\* mutant of FirstCharIndex: an opening brace wins wherever it stands
FirstCharIndexBraceFirst(cleanedInput) ==
  LET firstBrace == indexOf(cleanedInput, "{")
      firstBracket == indexOf(cleanedInput, "[")
  IN IF firstBrace # -1 THEN firstBrace
     ELSE IF firstBracket # -1 THEN firstBracket
     ELSE -1

FirstCharIndex(cleanedInput) ==
  LET firstBrace == indexOf(cleanedInput, "{")
      firstBracket == indexOf(cleanedInput, "[")
  IN IF firstBrace # -1 /\ (firstBracket = -1 \/ firstBrace < firstBracket)
     THEN firstBrace
     ELSE IF firstBracket # -1 THEN firstBracket
     ELSE -1

\* mutant of LastCharIndex: the first closing delimiter instead of the last
LastCharIndexFirstCloser(cleanedInput, firstCharIndex) ==
  LET typeOfStart == charAt(cleanedInput, firstCharIndex)
  IN IF typeOfStart = "{" THEN indexOf(cleanedInput, "}")
     ELSE IF typeOfStart = "[" THEN indexOf(cleanedInput, "]")
     ELSE -1

LastCharIndex(cleanedInput, firstCharIndex) ==
  LET typeOfStart == charAt(cleanedInput, firstCharIndex)
  IN IF typeOfStart = "{" THEN lastIndexOf(cleanedInput, "}")
     ELSE IF typeOfStart = "[" THEN lastIndexOf(cleanedInput, "]")
     ELSE -1

\* mutant of JsonCandidate: the slice stops before the closing delimiter
JsonCandidateShort(cleanedInput, firstCharIndex, lastCharIndex) ==
  substring(cleanedInput, firstCharIndex, lastCharIndex)

JsonCandidate(cleanedInput, firstCharIndex, lastCharIndex) ==
  substring(cleanedInput, firstCharIndex, lastCharIndex + 1)

\* mutant of extractJsonFromString: a slice that does not parse is repaired by
\* cutting it at the first closing delimiter
extractJsonFromStringRepairing(input) ==
  LET cleanedInput == trim(RemoveFences(input))
      firstCharIndex == FirstCharIndex(cleanedInput)
  IN IF firstCharIndex = -1 THEN NoMatch
     ELSE LET lastCharIndex == LastCharIndex(cleanedInput, firstCharIndex)
          IN IF lastCharIndex = -1 \/ lastCharIndex < firstCharIndex THEN NoMatch
             ELSE LET jsonCandidate ==
                        JsonCandidate(cleanedInput, firstCharIndex, lastCharIndex)
                      repaired ==
                        JsonCandidate(cleanedInput, firstCharIndex,
                                      LastCharIndexFirstCloser(cleanedInput,
                                                               firstCharIndex))
                  IN IF JSONParse(jsonCandidate).ok THEN Candidate(jsonCandidate)
                     ELSE IF JSONParse(repaired).ok THEN Candidate(repaired)
                     ELSE NoMatch

\* mutant of extractJsonFromString: the slice is returned without being parsed
extractJsonFromStringUnparsed(input) ==
  LET cleanedInput == trim(RemoveFences(input))
      firstCharIndex == FirstCharIndex(cleanedInput)
  IN IF firstCharIndex = -1 THEN NoMatch
     ELSE LET lastCharIndex == LastCharIndex(cleanedInput, firstCharIndex)
          IN IF lastCharIndex = -1 \/ lastCharIndex < firstCharIndex THEN NoMatch
             ELSE Candidate(JsonCandidate(cleanedInput, firstCharIndex,
                                          lastCharIndex))

extractJsonFromString(input) ==
  LET cleanedInput == trim(RemoveFences(input))
      firstCharIndex == FirstCharIndex(cleanedInput)
  IN IF firstCharIndex = -1 THEN NoMatch
     ELSE LET lastCharIndex == LastCharIndex(cleanedInput, firstCharIndex)
          IN IF lastCharIndex = -1 \/ lastCharIndex < firstCharIndex THEN NoMatch
             ELSE LET jsonCandidate ==
                        JsonCandidate(cleanedInput, firstCharIndex, lastCharIndex)
                  IN IF jsonCandidate # <<>> /\ JSONParse(jsonCandidate).ok
                     THEN Candidate(jsonCandidate)
                     ELSE NoMatch

(***************************************************************************)
(* extractJsonFromString of the second copy of the service                 *)
(* (src/unnamed/part_002): the brace slice of the raw text is tried first, *)
(* then the bracket slice; fences are removed only after a slice failed to *)
(* parse, and that pattern takes no white space and knows no tag "text".   *)
(***************************************************************************)
AfterTagDuplicate(s, p) ==
  IF StartsAt(s, TagJson, p) THEN p + Len(TagJson)
  ELSE IF StartsAt(s, TagJavascript, p) THEN p + Len(TagJavascript)
  ELSE p

RECURSIVE RemoveFencesDuplicateFrom(_, _)
RemoveFencesDuplicateFrom(s, p) ==
  LET f == NextFence(s, p)
  IN IF f = 0 THEN SubSeq(s, p, Len(s))
     ELSE SubSeq(s, p, f - 1)
            \o RemoveFencesDuplicateFrom(s, AfterTagDuplicate(s, f + Len(Fence)))

\* the slice from the first opener to the last closer, when both exist and
\* the closer stands after the opener
SliceDuplicate(text, opener, closer) ==
  LET first == indexOf(text, opener)
      last == lastIndexOf(text, closer)
  IN IF first # -1 /\ last # -1 /\ last > first
     THEN Candidate(substring(text, first, last + 1))
     ELSE NoMatch

Parses(candidate) == candidate # NoMatch /\ JSONParse(candidate.s).ok

extractJsonFromStringDuplicate(input) ==
  LET braces == SliceDuplicate(input, "{", "}")
      jsonCandidate ==
        IF braces # NoMatch THEN braces ELSE SliceDuplicate(input, "[", "]")
  IN IF jsonCandidate = NoMatch THEN NoMatch
     ELSE IF Parses(jsonCandidate) THEN jsonCandidate
     ELSE LET cleanedInput == trim(RemoveFencesDuplicateFrom(input, 1))
              finalBraces == SliceDuplicate(cleanedInput, "{", "}")
              finalBrackets == SliceDuplicate(cleanedInput, "[", "]")
          IN IF Parses(finalBraces) THEN finalBraces
             ELSE IF Parses(finalBrackets) THEN finalBrackets
             ELSE NoMatch

(***************************************************************************)
(* Reply texts of the Model Client.  Documents are written as values and   *)
(* rendered by Stringify; the words below are the property names and       *)
(* contents they use.                                                      *)
(***************************************************************************)
KDestination == <<"d", "e", "s", "t", "i", "n", "a", "t", "i", "o", "n">>
KDuration == <<"d", "u", "r", "a", "t", "i", "o", "n">>
KOverview == <<"o", "v", "e", "r", "v", "i", "e", "w">>
KItinerary == <<"i", "t", "i", "n", "e", "r", "a", "r", "y">>
KPackingSuggestions == <<"p", "a", "c", "k", "i", "n", "g", "S", "u", "g", "g", "e", "s", "t", "i", "o", "n", "s">>
KNotes == <<"n", "o", "t", "e", "s">>
KBudgetSummary == <<"b", "u", "d", "g", "e", "t", "S", "u", "m", "m", "a", "r", "y">>
KDay == <<"d", "a", "y">>
WBali == <<"B", "a", "l", "i">>
WKyoto == <<"K", "y", "o", "t", "o">>
WFood == <<"f", "o", "o", "d">>
WUSD == <<"U", "S", "D">>
WIDR == <<"I", "D", "R">>

Quote == <<"\"">>

RECURSIVE UnsignedText(_)
UnsignedText(n) ==
  IF n < 10 THEN <<Digits[n + 1]>>
  ELSE UnsignedText(n \div 10) \o <<Digits[(n % 10) + 1]>>

\* String(n) for an integer n, as a template literal renders it
NumText(n) == IF n < 0 THEN <<"-">> \o UnsignedText(0 - n) ELSE UnsignedText(n)

RECURSIVE Stringify(_), StringifyElements(_), StringifyMembers(_)

Stringify(v) ==
  CASE v.t = "null" -> LitNull
    [] v.t = "bool" -> IF v.b THEN LitTrue ELSE LitFalse
    [] v.t = "num" -> NumText(v.n)
    [] v.t = "str" -> Quote \o v.s \o Quote
    [] v.t = "arr" -> <<"[">> \o StringifyElements(v.a) \o <<"]">>
    [] v.t = "obj" -> <<"{">> \o StringifyMembers(v.o) \o <<"}">>

StringifyElements(xs) ==
  IF xs = <<>> THEN <<>>
  ELSE IF Len(xs) = 1 THEN Stringify(xs[1])
  ELSE Stringify(xs[1]) \o <<",">> \o StringifyElements(Tail(xs))

StringifyMembers(ms) ==
  IF ms = <<>> THEN <<>>
  ELSE LET m == Quote \o ms[1].k \o Quote \o <<":">> \o Stringify(ms[1].v)
       IN IF Len(ms) = 1 THEN m ELSE m \o <<",">> \o StringifyMembers(Tail(ms))

M(k, v) == [k |-> k, v |-> v]

DayPlan(d) == JObj(<<M(KDay, JNum(d))>>)

\* a conforming itinerary whose duration differs from every requested one and
\* whose day plans are out of day order
DocFull ==
  JObj(<<M(KDestination, JStr(WBali)), M(KDuration, JNum(5)),
         M(KOverview, JStr(WFood)),
         M(KItinerary, JArr(<<DayPlan(2), DayPlan(1)>>))>>)
DocMinimal == JObj(<<M(KDestination, JStr(WKyoto)), M(KItinerary, JArr(<<>>))>>)
DocEmptyDestination == JObj(<<M(KDestination, JStr(<<>>)), M(KItinerary, JArr(<<>>))>>)
DocNoDestination == JObj(<<M(KItinerary, JArr(<<>>))>>)
DocNoItinerary == JObj(<<M(KDestination, JStr(WBali))>>)
DocItineraryNotArray == JObj(<<M(KDestination, JStr(WBali)), M(KItinerary, JObj(<<>>))>>)
DocNumericDestination == JObj(<<M(KDestination, JNum(7)), M(KItinerary, JArr(<<>>))>>)
DocArray == JArr(<<DocMinimal>>)
DocFenceInside == JObj(<<M(KDestination, JStr(Fence)), M(KItinerary, JArr(<<>>))>>)
DocString == JStr(WBali)
DocNumber == JNum(42)

DocValues ==
  <<DocFull, DocMinimal, DocEmptyDestination, DocNoDestination, DocNoItinerary,
    DocItineraryNotArray, DocNumericDestination, DocArray, DocFenceInside,
    DocString, DocNumber>>

DocTexts == {Stringify(DocValues[i]) : i \in 1..Len(DocValues)}

\* documents whose destination or itinerary is of another type than the
\* schema gives it
DocZeroDestination == JObj(<<M(KDestination, JNum(0)), M(KItinerary, JArr(<<>>))>>)
DocFalseDestination ==
  JObj(<<M(KDestination, JBool(FALSE)), M(KItinerary, JArr(<<DayPlan(1)>>))>>)
DocNullDestination == JObj(<<M(KDestination, JNull), M(KItinerary, JArr(<<>>))>>)
DocListDestination ==
  JObj(<<M(KDestination, JArr(<<JStr(WBali)>>)), M(KItinerary, JArr(<<>>))>>)
DocNullItinerary == JObj(<<M(KDestination, JStr(WBali)), M(KItinerary, JNull)>>)
DocTextItinerary ==
  JObj(<<M(KItinerary, JStr(WFood)), M(KDestination, JStr(WBali)),
         M(KNotes, JArr(<<>>))>>)
DocEmptyArray == JArr(<<>>)

ShapeDocs ==
  <<DocZeroDestination, DocFalseDestination, DocNullDestination,
    DocListDestination, DocNullItinerary, DocTextItinerary, DocEmptyArray>>

\* texts that hold delimiters but no document
BrokenTexts ==
  {<<"{", "\"", "d", "e", "s", "t", "i", "n", "a", "t", "i", "o", "n", "\"", ":">>,
   <<"{", "}", "{", "}">>,
   <<"{", "\"", "d", "a", "y", "\"", ":", "1", "]">>}

\* prose around a document
PreProse ==
  {<<>>,
   <<"P", "l", "a", "n", ":", " ">>,
   <<"S", "e", "e", " ", "{", "x", "}", " ">>,
   <<"a", "[", "1", "]", " ">>,
   <<"t", "i", "c", "k", Backtick, " ">>}
PostProse ==
  {<<>>,
   <<" ", "E", "n", "j", "o", "y">>,
   <<" ", "{", "e", "n", "d", "}">>,
   <<" ", "]">>,
   <<" ", Backtick>>}

\* language tags a reply may put after the opening fence
TagJs == <<"j", "s">>
LangTags == {TagJson, TagJavascript, TagText, TagJs}

NewLine == <<"\n">>

\* prose, an opening fence with a language tag, the document, the closing
\* fence, prose
Fenced(pre, tag, doc, post) ==
  pre \o Fence \o tag \o NewLine \o doc \o NewLine \o Fence \o post

FencedTexts ==
  {Fenced(pre, tag, doc, post) :
     pre \in PreProse, tag \in LangTags, doc \in DocTexts, post \in PostProse}

\* the document in prose without fences, or padded with white space
EmbeddedTexts ==
  {pre \o doc \o post : pre \in PreProse, doc \in DocTexts \cup BrokenTexts,
                        post \in PostProse}
    \cup {NewLine \o doc \o <<" ">> : doc \in DocTexts}
    \cup {Fence \o doc : doc \in DocTexts}

\* every text of at most n characters over the alphabet
Alphabet == {"{", "}", "[", "]", "\"", ",", "1", " ", Backtick}
TextsUpTo(n) == UNION {[1..k -> Alphabet] : k \in 0..n}

ExtractorInputs == TextsUpTo(MaxLen) \cup FencedTexts \cup EmbeddedTexts

(***************************************************************************)
(* generateItinerary: fixed texts                                          *)
(***************************************************************************)
\* the authorization signature looked for in a failure's message
EntityNotFound ==
  <<"R", "e", "q", "u", "e", "s", "t", "e", "d", " ", "e", "n", "t", "i",
    "t", "y", " ", "w", "a", "s", " ", "n", "o", "t", " ", "f", "o", "u",
    "n", "d", ".">>
\* the messages of the errors thrown to the caller
MsgApiKey ==
  <<"K", "u", "n", "c", "i", " ", "A", "P", "I", " ", "m", "u", "n", "g",
    "k", "i", "n", " ", "t", "i", "d", "a", "k", " ", "v", "a", "l", "i",
    "d", " ", "a", "t", "a", "u", " ", "t", "i", "d", "a", "k", " ", "t",
    "e", "r", "p", "i", "l", "i", "h", ".", " ", "H", "a", "r", "a", "p",
    " ", "p", "a", "s", "t", "i", "k", "a", "n", " ", "A", "n", "d", "a",
    " ", "t", "e", "l", "a", "h", " ", "m", "e", "m", "i", "l", "i", "h",
    " ", "k", "u", "n", "c", "i", " ", "A", "P", "I", " ", "b", "e", "r",
    "b", "a", "y", "a", "r", " ", "y", "a", "n", "g", " ", "v", "a", "l",
    "i", "d", " ", "m", "e", "l", "a", "l", "u", "i", " ", "d", "i", "a",
    "l", "o", "g", " ", "p", "e", "m", "i", "l", "i", "h", "a", "n", " ",
    "k", "u", "n", "c", "i", " ", "A", "P", "I", ".">>
MsgGeminiPrefix ==
  <<"K", "e", "s", "a", "l", "a", "h", "a", "n", " ", "A", "P", "I", " ",
    "G", "e", "m", "i", "n", "i", ":", " ">>
MsgUnknown ==
  <<"T", "e", "r", "j", "a", "d", "i", " ", "k", "e", "s", "a", "l", "a",
    "h", "a", "n", " ", "y", "a", "n", "g", " ", "t", "i", "d", "a", "k",
    " ", "d", "i", "k", "e", "t", "a", "h", "u", "i", " ", "s", "a", "a",
    "t", " ", "m", "e", "m", "a", "n", "g", "g", "i", "l", " ", "A", "P",
    "I", " ", "G", "e", "m", "i", "n", "i", ".">>
\* the message of the error thrown inside the try block in Structured mode
MsgInvalidJson ==
  <<"R", "e", "s", "p", "o", "n", "s", " ", "J", "S", "O", "N", " ", "t",
    "i", "d", "a", "k", " ", "v", "a", "l", "i", "d", " ", "d", "a", "r",
    "i", " ", "A", "P", "I", ",", " ", "a", "t", "a", "u", " ", "d", "a",
    "t", "a", " ", "t", "e", "r", "s", "t", "r", "u", "k", "t", "u", "r",
    " ", "h", "i", "l", "a", "n", "g", ".">>
\* engine messages of the TypeErrors raised by a property read on
\* undefined/null and by a call of a non-function
MsgCannotRead ==
  <<"C", "a", "n", "n", "o", "t", " ", "r", "e", "a", "d", " ", "p", "r",
    "o", "p", "e", "r", "t", "i", "e", "s", " ", "o", "f", " ", "u", "n",
    "d", "e", "f", "i", "n", "e", "d">>
MsgNotAFunction ==
  <<"e", "r", "r", "o", "r", ".", "m", "e", "s", "s", "a", "g", "e", ".",
    "i", "n", "c", "l", "u", "d", "e", "s", " ", "i", "s", " ", "n", "o",
    "t", " ", "a", " ", "f", "u", "n", "c", "t", "i", "o", "n">>
\* the fallback itinerary's notes and budget summary
NotesFallback ==
  <<"I", "t", "i", "n", "e", "r", "a", "r", "y", " ", "t", "i", "d", "a",
    "k", " ", "d", "a", "p", "a", "t", " ", "d", "i", "u", "r", "a", "i",
    "k", "a", "n", " ", "k", "e", " ", "f", "o", "r", "m", "a", "t", " ",
    "t", "e", "r", "s", "t", "r", "u", "k", "t", "u", "r", ".", " ", "S",
    "i", "l", "a", "k", "a", "n", " ", "l", "i", "h", "a", "t", " ", "b",
    "a", "g", "i", "a", "n", " ", "i", "k", "h", "t", "i", "s", "a", "r",
    " ", "u", "n", "t", "u", "k", " ", "d", "e", "t", "a", "i", "l", " ",
    "d", "a", "n", " ", "p", "e", "r", "i", "k", "s", "a", " ", "t", "a",
    "u", "t", "a", "n", " ", "s", "u", "m", "b", "e", "r", ".">>
BudgetPrefix == <<"A", "n", "g", "g", "a", "r", "a", "n", ":", " ">>
ReviewLink == <<"R", "e", "v", "i", "e", "w", " ", "L", "i", "n", "k">>
KMessage == <<"m", "e", "s", "s", "a", "g", "e">>

\* model identifiers and tools
ModelGrounded == "gemini-2.5-flash"
ModelStructured == "gemini-3-pro-preview"
GoogleMaps == "googleMaps"
GoogleSearch == "googleSearch"

\* the literal segments of the prompt template literal, each kept as one
\* atom of the prompt text
PromptTrip ==
  "Buat itinerary perjalanan yang detail dan kreatif untuk perjalanan "
PromptDaysTo ==
  " hari ke "
PromptInterests ==
  ".\n  Wisatawan tertarik pada "
PromptBudget ==
  ". Mereka memiliki anggaran sebesar "
PromptInclude ==
  ".\n  \n  Harap sertakan:\n  - Ikhtisar perjalanan.\n  - Rincian rencana harian dengan tema dan aktivitas spesifik (dengan waktu yang disarankan).\n  - Saran barang bawaan yang praktis.\n  - Catatan penting untuk perjalanan.\n  - Ringkasan atau analisis tentang bagaimana anggaran "
PromptFormat ==
  " dapat memengaruhi perencanaan perjalanan atau apa yang bisa didapatkan.\n  \n  Buat itinerary dalam format JSON, dan semua teks dalam properti JSON harus dalam Bahasa Indonesia.\n  Jika relevan, sertakan saran yang berfokus pada Indonesia untuk rekomendasi umum dan penelusuran."
PromptLatitude == " Lokasi pengguna saat ini kira-kira lintang "
PromptLongitude == ", bujur "
PromptStop == "."

(***************************************************************************)
(* generateItinerary: request construction                                 *)
(***************************************************************************)
\* if (latitude && longitude)
UseMapsGrounding(preferences) ==
  Truthy(preferences.latitude) /\ Truthy(preferences.longitude)

\* a coordinate interpolated into the prompt
CoordText(v) ==
  CASE v.t = "num" -> NumText(v.n)
    [] v.t = "nan" -> <<"NaN">>
    [] v.t = "null" -> LitNull
    [] OTHER -> <<"undefined">>

BasePrompt(preferences) ==
  <<PromptTrip>> \o NumText(preferences.duration) \o <<PromptDaysTo>>
    \o preferences.destination \o <<PromptInterests>> \o preferences.interests
    \o <<PromptBudget>> \o NumText(preferences.budget) \o <<" ">>
    \o preferences.currency \o <<PromptInclude>> \o NumText(preferences.budget)
    \o <<" ">> \o preferences.currency \o <<PromptFormat>>

LocationSentence(preferences) ==
  <<PromptLatitude>> \o CoordText(preferences.latitude) \o <<PromptLongitude>>
    \o CoordText(preferences.longitude) \o <<PromptStop>>

\* mutant of BuildRequest: the output schema is requested in both modes
BuildRequestSchemaAlways(preferences) ==
  LET grounded == UseMapsGrounding(preferences)
  IN [model |-> IF grounded THEN ModelGrounded ELSE ModelStructured,
      prompt |-> BasePrompt(preferences)
                   \o (IF grounded THEN LocationSentence(preferences) ELSE <<>>),
      tools |-> (IF grounded THEN <<GoogleMaps>> ELSE <<>>) \o <<GoogleSearch>>,
      toolConfig |-> IF grounded
                     THEN [t |-> "retrievalConfig",
                           latitude |-> preferences.latitude,
                           longitude |-> preferences.longitude]
                     ELSE JUndefined,
      responseMimeType |-> "application/json",
      responseSchema |-> TRUE]

\* the argument of ai.models.generateContent
BuildRequest(preferences) ==
  LET grounded == UseMapsGrounding(preferences)
  IN [model |-> IF grounded THEN ModelGrounded ELSE ModelStructured,
      prompt |-> BasePrompt(preferences)
                   \o (IF grounded THEN LocationSentence(preferences) ELSE <<>>),
      tools |-> (IF grounded THEN <<GoogleMaps>> ELSE <<>>) \o <<GoogleSearch>>,
      toolConfig |-> IF grounded
                     THEN [t |-> "retrievalConfig",
                           latitude |-> preferences.latitude,
                           longitude |-> preferences.longitude]
                     ELSE JUndefined,
      responseMimeType |-> IF ~grounded THEN "application/json" ELSE "undefined",
      responseSchema |-> ~grounded]

(***************************************************************************)
(* generateItinerary: handling of the reply                                *)
(***************************************************************************)
JError(name, message) == [t |-> "error", name |-> name, message |-> message]

Return(itineraryData, sourceUrls) ==
  [kind |-> "return", itineraryData |-> itineraryData, sourceUrls |-> sourceUrls]
Throw(error) == [kind |-> "throw", error |-> error]

\* mutant of FallbackItinerary: the reply text is dropped
FallbackItineraryNoOverview(preferences, rawResponseText) ==
  JObj(<<M(KDestination, JStr(preferences.destination)),
         M(KDuration, JNum(preferences.duration)),
         M(KOverview, JStr(<<>>)),
         M(KItinerary, JArr(<<>>)),
         M(KPackingSuggestions, JArr(<<>>)),
         M(KNotes, JStr(NotesFallback)),
         M(KBudgetSummary,
           JStr(BudgetPrefix \o NumText(preferences.budget) \o <<" ">>
                  \o preferences.currency \o <<".">>))>>)

\* the itinerary built when the reply cannot be used as a document
FallbackItinerary(preferences, rawResponseText) ==
  JObj(<<M(KDestination, JStr(preferences.destination)),
         M(KDuration, JNum(preferences.duration)),
         M(KOverview, JStr(rawResponseText)),
         M(KItinerary, JArr(<<>>)),
         M(KPackingSuggestions, JArr(<<>>)),
         M(KNotes, JStr(NotesFallback)),
         M(KBudgetSummary,
           JStr(BudgetPrefix \o NumText(preferences.budget) \o <<" ">>
                  \o preferences.currency \o <<".">>))>>)

\* mutant of ShapeInvalid: an itinerary without day plans is refused
ShapeInvalidWithoutDays(parsedItinerary) ==
  \/ ~Truthy(parsedItinerary)
  \/ ~Truthy(Get(parsedItinerary, KDestination))
  \/ ~IsArray(Get(parsedItinerary, KItinerary))
  \/ Get(parsedItinerary, KItinerary).a = <<>>

\* !parsedItinerary || !parsedItinerary.destination
\*   || !Array.isArray(parsedItinerary.itinerary)
ShapeInvalid(parsedItinerary) ==
  \/ ~Truthy(parsedItinerary)
  \/ ~Truthy(Get(parsedItinerary, KDestination))
  \/ ~IsArray(Get(parsedItinerary, KItinerary))

Citation(uri, title) == [uri |-> uri, title |-> title]

\* reviewSnippets.forEach(...)
RECURSIVE SnippetCitations(_)
SnippetCitations(reviewSnippets) ==
  IF reviewSnippets = <<>> THEN <<>>
  ELSE LET snippet == Head(reviewSnippets)
       IN <<Citation(snippet.uri,
                     IF Truthy(snippet.title) THEN snippet.title ELSE JStr(ReviewLink))>>
            \o SnippetCitations(Tail(reviewSnippets))

\* mutant of ChunkCitations: the review snippets come before their place
ChunkCitationsSnippetsFirst(chunk) ==
  IF Truthy(chunk.web)
  THEN <<Citation(chunk.web.uri, chunk.web.title)>>
  ELSE IF Truthy(chunk.maps)
  THEN (IF Truthy(chunk.maps.reviewSnippets)
        THEN SnippetCitations(chunk.maps.reviewSnippets.a)
        ELSE <<>>)
         \o <<Citation(chunk.maps.uri, chunk.maps.title)>>
  ELSE <<>>

\* the body of the loop over the grounding chunks
ChunkCitations(chunk) ==
  IF Truthy(chunk.web)
  THEN <<Citation(chunk.web.uri, chunk.web.title)>>
  ELSE IF Truthy(chunk.maps)
  THEN <<Citation(chunk.maps.uri, chunk.maps.title)>>
         \o (IF Truthy(chunk.maps.reviewSnippets)
             THEN SnippetCitations(chunk.maps.reviewSnippets.a)
             ELSE <<>>)
  ELSE <<>>

RECURSIVE ChunksCitations(_)
ChunksCitations(chunks) ==
  IF chunks = <<>> THEN <<>>
  ELSE ChunkCitations(Head(chunks)) \o ChunksCitations(Tail(chunks))

\* sourceUrls, from response.candidates?.[0]?.groundingMetadata?.groundingChunks
SourceUrls(groundingChunks) ==
  IF Truthy(groundingChunks) THEN ChunksCitations(groundingChunks.a) ELSE <<>>

\* mutants of OnInvalid: the mode is ignored
OnInvalidThrows(preferences, useMapsGrounding, rawResponseText) ==
  Throw(JError("Error", MsgInvalidJson))

OnInvalidFallsBack(preferences, useMapsGrounding, rawResponseText) ==
  Return(FallbackItinerary(preferences, rawResponseText), <<>>)

\* the catch clause of the mode's parse-and-check block: Grounded mode falls
\* back, Structured mode throws
OnInvalid(preferences, useMapsGrounding, rawResponseText) ==
  IF useMapsGrounding
  THEN Return(FallbackItinerary(preferences, rawResponseText), <<>>)
  ELSE Throw(JError("Error", MsgInvalidJson))

\* mutant of Validated: the day plans are put in the opposite order
ValidatedDaysReversed(parsedItinerary, sourceUrls) ==
  LET days == Get(parsedItinerary, KItinerary).a
      reversed == [i \in 1..Len(days) |-> days[Len(days) + 1 - i]]
  IN Return(JObj(SetKey(parsedItinerary.o, KItinerary, JArr(reversed))), sourceUrls)

\* return { itineraryData: parsedItinerary, sourceUrls }
Validated(parsedItinerary, sourceUrls) == Return(parsedItinerary, sourceUrls)

\* const rawResponseText = response.text.trim()
RawResponseText(response) == trim(response.text.s)

\* the try block from the check of cleanedJsonString on
AfterExtraction(preferences, useMapsGrounding, response, rawResponseText, cleanedJsonString) ==
  IF ~Truthy(cleanedJsonString)
  THEN Return(FallbackItinerary(preferences, rawResponseText), <<>>)
  ELSE
    LET parsed == JSONParse(cleanedJsonString.s)
    IN IF ~parsed.ok \/ ShapeInvalid(parsed.val)
       THEN OnInvalid(preferences, useMapsGrounding, rawResponseText)
       ELSE Validated(parsed.val, SourceUrls(response.groundingChunks))

\* error.message
MessageOf(error) ==
  CASE error.t = "error" -> JStr(error.message)
    [] error.t = "obj" -> Get(error, KMessage)
    [] OTHER -> JUndefined

\* the catch block: what is thrown to the caller for a caught error
CatchBlock(error) ==
  LET message == MessageOf(error)
  IN IF error.t \in {"undefined", "null"} \/ message.t \in {"undefined", "null"}
     THEN Throw(JError("TypeError", MsgCannotRead))
     ELSE IF message.t # "str"
     THEN Throw(JError("TypeError", MsgNotAFunction))
     ELSE IF includes(message.s, EntityNotFound)
     THEN Throw(JError("Error", MsgApiKey))
     ELSE IF error.t = "error"
     THEN Throw(JError("Error", MsgGeminiPrefix \o error.message))
     ELSE Throw(JError("Error", MsgUnknown))

\* try { ... } catch (error) { ... }: an error thrown in the try block is
\* handled by the catch block
Caught(o) == IF o.kind = "throw" THEN CatchBlock(o.error) ELSE o

\* what generateItinerary returns or throws once its call has settled:
\* response.text.trim() throws when the response has no text
Outcome(preferences, settled) ==
  IF settled.t = "rejected" THEN CatchBlock(settled.value)
  ELSE IF settled.text.t # "str"
  THEN CatchBlock(JError("TypeError", MsgCannotRead))
  ELSE LET raw == RawResponseText(settled)
       IN Caught(AfterExtraction(preferences, UseMapsGrounding(preferences),
                                 settled, raw, extractJsonFromString(raw)))

(***************************************************************************)
(* Inputs of generateItinerary: preferences, replies, failures             *)
(***************************************************************************)
Coordinates == <<JUndefined, JNull, JNaN, JNum(0), JNum(-6), JNum(107)>>

Prefs(destination, duration, budget, currency, latitude, longitude) ==
  [destination |-> destination, duration |-> duration, interests |-> WFood,
   budget |-> budget, currency |-> currency,
   latitude |-> latitude, longitude |-> longitude]

\* one traveller with every pair of coordinates, another without and with
\* coordinates
PreferenceInputs ==
  {Prefs(WKyoto, 3, 500, WUSD, Coordinates[i], Coordinates[j]) :
     i \in 1..Len(Coordinates), j \in 1..Len(Coordinates)}
    \cup {Prefs(WBali, 1, 0, WIDR, JUndefined, JUndefined),
          Prefs(WBali, 1, 0, WIDR, JNum(-6), JNum(107))}

ProseOnly == <<"E", "n", "j", "o", "y", " ", "B", "a", "l", "i">>
ProsePadded == <<"\n", " ">> \o ProseOnly \o <<" ", "\n">>
BrokenReply == <<"{", "\"", "d", "e", "s", "t", "i", "n", "a", "t", "i", "o", "n", "\"", ":">>

FencedReply ==
  JStr(Fenced(<<"P", "l", "a", "n", ":", " ">>, TagJson, Stringify(DocFull),
              <<" ", "E", "n", "j", "o", "y">>))

ReplyTexts ==
  {JStr(d) : d \in DocTexts}
    \cup {JStr(Stringify(ShapeDocs[i])) : i \in 1..Len(ShapeDocs)}
    \cup {FencedReply,
          JStr(Fenced(<<>>, TagText, Stringify(DocNoDestination), <<>>)),
          JStr(NewLine \o Stringify(DocMinimal) \o <<" ">>),
          JStr(ProseOnly), JStr(ProsePadded), JStr(BrokenReply), JStr(<<>>),
          JUndefined}

Uri(n) == JStr(<<"u">> \o NumText(n))
Web(uri, title) == [t |-> "web", uri |-> uri, title |-> title]
Maps(uri, title, reviewSnippets) ==
  [t |-> "maps", uri |-> uri, title |-> title, reviewSnippets |-> reviewSnippets]
Snippet(uri, title) == [uri |-> uri, title |-> title]
Chunk(web, maps) == [web |-> web, maps |-> maps]

ChunkWeb == Chunk(Web(Uri(1), JStr(WKyoto)), JUndefined)
ChunkPlace == Chunk(JUndefined, Maps(Uri(2), JStr(WBali), JUndefined))
ChunkPlaceReviews ==
  Chunk(JUndefined,
        Maps(Uri(3), JUndefined,
             JArr(<<Snippet(Uri(4), JStr(WFood)), Snippet(Uri(5), JUndefined)>>)))
ChunkOther == Chunk(JUndefined, JUndefined)
ChunkBoth ==
  Chunk(Web(Uri(6), JUndefined),
        Maps(Uri(7), JUndefined, JArr(<<Snippet(Uri(8), JStr(<<>>))>>)))

ChunkKinds == <<ChunkWeb, ChunkPlace, ChunkPlaceReviews, ChunkOther, ChunkBoth>>

\* the longest list of grounding chunks a response carries
MaxChunks == 2

ChunkLists ==
  {[i \in DOMAIN f |-> ChunkKinds[f[i]]] :
     f \in UNION {[1..k -> 1..Len(ChunkKinds)] : k \in 0..MaxChunks}}

GroundingInputs == {JUndefined} \cup {JArr(chunks) : chunks \in ChunkLists}

Response(text, groundingChunks) ==
  [t |-> "resolved", text |-> text, groundingChunks |-> groundingChunks]

\* what the call resolves with: the reply text and the grounding chunks;
\* every reply with no chunks and with two, two conforming replies with
\* every list of chunks
Responses ==
  {Response(text, g) :
     text \in ReplyTexts, g \in {JUndefined, JArr(<<ChunkPlaceReviews, ChunkWeb>>)}}
    \cup {Response(text, g) :
            text \in {JStr(Stringify(DocMinimal)), FencedReply}, g \in GroundingInputs}

WFetchFailed == <<"f", "e", "t", "c", "h", " ", "f", "a", "i", "l", "e", "d">>
WNotFoundLong == <<"4", "0", "4", " ">> \o EntityNotFound \o <<" ", "x">>

\* what the call rejects with: Error objects, plain objects, primitives
Failures ==
  <<JError("Error", EntityNotFound), JError("Error", WNotFoundLong),
    JError("Error", WFetchFailed), JError("TypeError", WFetchFailed),
    JError("Error", <<>>),
    JObj(<<M(KMessage, JStr(WFetchFailed))>>),
    JObj(<<M(KMessage, JStr(EntityNotFound))>>),
    JObj(<<M(KMessage, JNum(42))>>), JObj(<<M(KDay, JNum(1))>>),
    JStr(WFetchFailed), JUndefined, JNull>>

Rejection(value) == [t |-> "rejected", value |-> value]

\* the invocations that may overlap
MaxInvocations == 2
Invocations == 1..MaxInvocations

\* what overlapping invocations are called with and what their calls settle
\* with: both modes, a conforming, a mismatching and a prose reply, two failures
OverlapPreferences ==
  {Prefs(WBali, 1, 0, WIDR, JUndefined, JUndefined),
   Prefs(WKyoto, 3, 500, WUSD, JNum(-6), JNum(107))}
OverlapSettlements ==
  {Response(JStr(Stringify(DocMinimal)), JArr(<<ChunkWeb>>)),
   Response(JStr(Stringify(DocNoDestination)), JUndefined),
   Response(JStr(ProsePadded), JUndefined),
   Rejection(JError("Error", WFetchFailed)),
   Rejection(JUndefined)}

(***************************************************************************)
(* App (src/unnamed/part_000) and its form (src/unnamed/part_001)          *)
(***************************************************************************)
MsgGeoDefault == "Tidak dapat mengambil lokasi Anda."
MsgGeoDenied ==
  "Akses lokasi ditolak. Harap aktifkan layanan lokasi di pengaturan browser Anda."
MsgGeoUnavailable == "Informasi lokasi tidak tersedia."
MsgGeoTimeout == "Permintaan untuk mendapatkan lokasi pengguna telah berakhir."
MsgGeoUnsupported == "Geolocation tidak didukung oleh browser Anda."

\* geoError.code, by the name of the constant it equals, or none of them
GeoErrorCodes == {"PERMISSION_DENIED", "POSITION_UNAVAILABLE", "TIMEOUT", "OTHER"}

\* the switch on geoError.code
GeoErrorMessage(code) ==
  CASE code = "PERMISSION_DENIED" -> MsgGeoDenied
    [] code = "POSITION_UNAVAILABLE" -> MsgGeoUnavailable
    [] code = "TIMEOUT" -> MsgGeoTimeout
    [] OTHER -> MsgGeoDefault

\* position.coords of the positions the browser reports
GeoPositions ==
  {[latitude |-> JNum(-6), longitude |-> JNum(107)],
   [latitude |-> JNum(0), longitude |-> JNum(107)]}

\* the preferences the form submits: every field filled in, no coordinates
FormPreferences ==
  {Prefs(WKyoto, 3, 500, WUSD, JUndefined, JUndefined),
   Prefs(WBali, 1, 0, WIDR, JUndefined, JUndefined)}

\* the requests for a position, and the calls of generateItinerary, that may
\* be outstanding together
MaxPending == 2
MaxOutstanding == 2

\* mutant of FullPreferences: each coordinate is attached on its own
FullPreferencesEachCoordinate(preferences, enabled, latitude, longitude, locError) ==
  [preferences EXCEPT
     !.latitude = IF enabled /\ Truthy(latitude) /\ ~Truthy(locError)
                  THEN latitude ELSE @,
     !.longitude = IF enabled /\ Truthy(longitude) /\ ~Truthy(locError)
                   THEN longitude ELSE @]

\* fullPreferences of handleSubmit
FullPreferences(preferences, enabled, latitude, longitude, locError) ==
  IF enabled /\ Truthy(latitude) /\ Truthy(longitude) /\ ~Truthy(locError)
  THEN [preferences EXCEPT !.latitude = latitude, !.longitude = longitude]
  ELSE preferences

\* mutant of SubmitEnabled: the form can be submitted while loading
SubmitEnabledAlways(loading) == TRUE

\* the submit button, and every field of the form, is disabled while loading
SubmitEnabled(loading) == ~loading

\* mutant of IsLoadingAfter: loading is ended on the success path only
IsLoadingAfterSuccessOnly(outcome) == outcome.kind = "throw"

\* finally { setIsLoading(false) }
IsLoadingAfter(outcome) == FALSE

(***************************************************************************)
(* State                                                                   *)
(***************************************************************************)
VARIABLES
  itineraryResult,  \* App state: the result shown, or null
  isLoading,
  error,            \* the message shown, or null
  currentLatitude,
  currentLongitude,
  isGettingLocation,
  locationError,
  geolocationEnabled,
  initialUserBudget,
  initialUserCurrency,
  geolocationSupported, \* whether navigator.geolocation exists
  pendingPositions, \* getCurrentPosition requests not yet called back
  calls,            \* the calls of generateItinerary in progress, oldest first
  frames,           \* the local values of each overlapping invocation
  pc,               \* "idle", "awaiting" (the call is outstanding), "returned", "thrown"
  preferences,      \* the argument of generateItinerary
  useMapsGrounding, \* the mode: TRUE is Grounded, FALSE is Structured
  request,          \* the argument of the model call
  issued,           \* the calls made to the model client, in order
  response,         \* what the call settled with
  rawResponseText,  \* the trimmed reply text
  cleanedJsonString, \* what extractJsonFromString made of it
  result,           \* the ItineraryResult returned to the caller
  thrown,           \* the error thrown to the caller
  input,            \* the text extractJsonFromString is applied to
  xpc,              \* "ready", "once" (applied), "twice" (applied to its own output)
  extracted,        \* its result on input
  reextracted       \* its result on extracted

pvars ==
  <<pc, preferences, useMapsGrounding, request, issued, response,
    rawResponseText, cleanedJsonString, result, thrown>>
xvars == <<input, xpc, extracted, reextracted>>
ovars == <<frames>>
avars ==
  <<itineraryResult, isLoading, error, currentLatitude, currentLongitude,
    isGettingLocation, locationError, geolocationEnabled, initialUserBudget,
    initialUserCurrency, geolocationSupported, pendingPositions, calls>>
vars == <<pvars, xvars, ovars, avars>>

\* what an action of generateItinerary, and of the extractor harness, leaves alone
nonPipeline == <<xvars, ovars, avars>>
nonExtractor == <<pvars, ovars, avars>>
nonOverlap == <<pvars, xvars, avars>>
nonApp == <<pvars, xvars, ovars>>

NotRun == [t |-> "notrun"]

PipelineIdle ==
  /\ pc = "idle"
  /\ preferences = NotRun
  /\ useMapsGrounding = FALSE
  /\ request = NotRun
  /\ issued = <<>>
  /\ response = NotRun
  /\ rawResponseText = NotRun
  /\ cleanedJsonString = NotRun
  /\ result = NotRun
  /\ thrown = NotRun

ExtractorIdle ==
  /\ input = <<>>
  /\ xpc = "idle"
  /\ extracted = NotRun
  /\ reextracted = NotRun

\* the locals of an invocation that has not been made
NoFrame ==
  [pc |-> "idle", preferences |-> NotRun, request |-> NotRun,
   response |-> NotRun, outcome |-> NotRun]

OverlapIdle == frames = [i \in Invocations |-> NoFrame]

\* App after its first render and the first run of the geolocation effect
AppMounted ==
  /\ itineraryResult = JNull
  /\ isLoading = FALSE
  /\ error = JNull
  /\ currentLatitude = JNull
  /\ currentLongitude = JNull
  /\ isGettingLocation = FALSE
  /\ locationError = JNull
  /\ geolocationEnabled = FALSE
  /\ initialUserBudget = 0
  /\ initialUserCurrency = <<>>
  /\ pendingPositions = 0
  /\ calls = <<>>

AppIdle == AppMounted /\ geolocationSupported = TRUE

(***************************************************************************)
(* generateItinerary                                                       *)
(***************************************************************************)
Init == PipelineIdle /\ ExtractorIdle /\ OverlapIdle /\ AppIdle

\* the call of generateItinerary up to the await
Invoke(p) ==
  /\ pc = "idle"
  /\ preferences' = p
  /\ useMapsGrounding' = UseMapsGrounding(p)
  /\ request' = BuildRequest(p)
  /\ issued' = Append(issued, BuildRequest(p))
  /\ pc' = "awaiting"
  /\ UNCHANGED <<response, rawResponseText, cleanedJsonString, result, thrown,
                 nonPipeline>>

Settle(o) ==
  IF o.kind = "return"
  THEN /\ result' = [itineraryData |-> o.itineraryData, sourceUrls |-> o.sourceUrls]
       /\ pc' = "returned"
       /\ UNCHANGED thrown
  ELSE /\ thrown' = o.error
       /\ pc' = "thrown"
       /\ UNCHANGED result

\* the call resolves with r: the rest of the try block, and the catch block
\* for what it throws (response.text.trim() throws when there is no text)
Resolve(r) ==
  /\ pc = "awaiting"
  /\ response' = r
  /\ IF r.text.t # "str"
     THEN /\ Settle(CatchBlock(JError("TypeError", MsgCannotRead)))
          /\ UNCHANGED <<rawResponseText, cleanedJsonString>>
     ELSE LET raw == RawResponseText(r)
              cleaned == extractJsonFromString(raw)
          IN /\ rawResponseText' = raw
             /\ cleanedJsonString' = cleaned
             /\ Settle(Caught(AfterExtraction(preferences, useMapsGrounding, r,
                                              raw, cleaned)))
  /\ UNCHANGED <<preferences, useMapsGrounding, request, issued, nonPipeline>>

\* mutant of Reject: a failed call is made once more
RejectRetrying(e) ==
  /\ pc = "awaiting"
  /\ Len(issued) < 2
  /\ issued' = Append(issued, request)
  /\ UNCHANGED <<pc, preferences, useMapsGrounding, request, response,
                 rawResponseText, cleanedJsonString, result, thrown, nonPipeline>>

\* the call rejects with e: the catch block
Reject(e) ==
  /\ pc = "awaiting"
  /\ response' = [t |-> "rejected", value |-> e]
  /\ Settle(CatchBlock(e))
  /\ UNCHANGED <<preferences, useMapsGrounding, request, issued, rawResponseText,
                 cleanedJsonString, nonPipeline>>

Next ==
  \/ \E p \in PreferenceInputs : Invoke(p)
  \/ \E r \in Responses : Resolve(r)
  \/ \E i \in 1..Len(Failures) : Reject(Failures[i])

Spec == Init /\ [][Next]_vars

(***************************************************************************)
(* The extractor applied to a reply text, and again to its own output      *)
(***************************************************************************)
XInit ==
  /\ PipelineIdle
  /\ OverlapIdle
  /\ AppIdle
  /\ input \in ExtractorInputs
  /\ xpc = "ready"
  /\ extracted = NotRun
  /\ reextracted = NotRun

ExtractOnce ==
  /\ xpc = "ready"
  /\ extracted' = extractJsonFromString(input)
  /\ xpc' = "once"
  /\ UNCHANGED <<input, reextracted, nonExtractor>>

ExtractAgain ==
  /\ xpc = "once"
  /\ extracted # NoMatch
  /\ reextracted' = extractJsonFromString(extracted.s)
  /\ xpc' = "twice"
  /\ UNCHANGED <<input, extracted, nonExtractor>>

XNext == ExtractOnce \/ ExtractAgain

SpecExtract == XInit /\ [][XNext]_vars

(***************************************************************************)
(* The extractor of the second copy, applied to a reply text and again to  *)
(* its own output                                                          *)
(***************************************************************************)
DuplicateOnce ==
  /\ xpc = "ready"
  /\ extracted' = extractJsonFromStringDuplicate(input)
  /\ xpc' = "once"
  /\ UNCHANGED <<input, reextracted, nonExtractor>>

DuplicateAgain ==
  /\ xpc = "once"
  /\ extracted # NoMatch
  /\ reextracted' = extractJsonFromStringDuplicate(extracted.s)
  /\ xpc' = "twice"
  /\ UNCHANGED <<input, extracted, nonExtractor>>

DNext == DuplicateOnce \/ DuplicateAgain

SpecExtractDuplicate == XInit /\ [][DNext]_vars

(***************************************************************************)
(* Overlapping invocations of generateItinerary: every local (ai, prompt,  *)
(* tools, response, ...) is declared inside the function, so each          *)
(* invocation reads and writes its own frame; the calls settle in any      *)
(* order.                                                                  *)
(***************************************************************************)
OInit == PipelineIdle /\ ExtractorIdle /\ OverlapIdle /\ AppIdle

\* mutant of Local: the values are kept at module level, where the earliest
\* invocation in progress put them
LocalAtModuleLevel(fs, i) ==
  IF \E j \in Invocations : fs[j].pc # "idle"
  THEN fs[CHOOSE j \in Invocations :
            fs[j].pc # "idle" /\ \A k \in 1..(j - 1) : fs[k].pc = "idle"]
  ELSE fs[i]

\* the values generateItinerary reads after its await: those of its own call
Local(fs, i) == fs[i]

InvokeOverlapping(i, p) ==
  /\ frames[i].pc = "idle"
  /\ frames' = [frames EXCEPT ![i] =
                  [pc |-> "awaiting", preferences |-> p,
                   request |-> BuildRequest(p), response |-> NotRun,
                   outcome |-> NotRun]]
  /\ UNCHANGED nonOverlap

\* the call of invocation i resolves or rejects, and the invocation runs to
\* its end
SettleOverlapping(i, settled) ==
  /\ frames[i].pc = "awaiting"
  /\ frames' = [frames EXCEPT ![i] =
                  [@ EXCEPT !.pc = "settled", !.response = settled,
                            !.outcome = Outcome(Local(frames, i).preferences,
                                                settled)]]
  /\ UNCHANGED nonOverlap

ONext ==
  \/ \E i \in Invocations, p \in OverlapPreferences : InvokeOverlapping(i, p)
  \/ \E i \in Invocations, settled \in OverlapSettlements :
       SettleOverlapping(i, settled)

SpecOverlap == OInit /\ [][ONext]_vars

(***************************************************************************)
(* App: the geolocation toggle with its effect, the callbacks of           *)
(* getCurrentPosition, and handleSubmit around its await of                *)
(* generateItinerary.  A state change and the render and effects that      *)
(* follow it are one step.                                                 *)
(***************************************************************************)
AInit ==
  /\ PipelineIdle
  /\ ExtractorIdle
  /\ OverlapIdle
  /\ AppMounted
  /\ geolocationSupported \in BOOLEAN

submitVars == <<itineraryResult, isLoading, error, initialUserBudget, initialUserCurrency, calls>>

\* the checkbox is switched (handleGeolocationChange, setGeolocationEnabled);
\* App renders again and the effect runs requestGeolocation with the new
\* value.  The checkbox is disabled while loading.
GeolocationToggle ==
  /\ ~isLoading
  /\ geolocationEnabled' = ~geolocationEnabled
  /\ IF geolocationEnabled
     THEN /\ currentLatitude' = JNull
          /\ currentLongitude' = JNull
          /\ locationError' = JNull
          /\ isGettingLocation' = FALSE
          /\ UNCHANGED pendingPositions
     ELSE IF geolocationSupported
     THEN /\ pendingPositions < MaxPending
          /\ isGettingLocation' = TRUE
          /\ locationError' = JNull
          /\ pendingPositions' = pendingPositions + 1
          /\ UNCHANGED <<currentLatitude, currentLongitude>>
     ELSE /\ locationError' = JStr(<<MsgGeoUnsupported>>)
          /\ currentLatitude' = JNull
          /\ currentLongitude' = JNull
          /\ isGettingLocation' = FALSE
          /\ UNCHANGED pendingPositions
  /\ UNCHANGED <<submitVars, geolocationSupported, nonApp>>

\* the success callback of a getCurrentPosition request
PositionSuccess(coords) ==
  /\ pendingPositions > 0
  /\ pendingPositions' = pendingPositions - 1
  /\ currentLatitude' = coords.latitude
  /\ currentLongitude' = coords.longitude
  /\ isGettingLocation' = FALSE
  /\ locationError' = JNull
  /\ UNCHANGED <<submitVars, geolocationEnabled, geolocationSupported, nonApp>>

\* the error callback of a getCurrentPosition request
PositionError(code) ==
  /\ pendingPositions > 0
  /\ pendingPositions' = pendingPositions - 1
  /\ locationError' = JStr(<<GeoErrorMessage(code)>>)
  /\ isGettingLocation' = FALSE
  /\ currentLatitude' = JNull
  /\ currentLongitude' = JNull
  /\ UNCHANGED <<submitVars, geolocationEnabled, geolocationSupported, nonApp>>

geoVars ==
  <<currentLatitude, currentLongitude, isGettingLocation, locationError,
    geolocationEnabled, geolocationSupported, pendingPositions>>

\* the form is submitted: handleSubmit up to its await, generateItinerary up
\* to the await of its model call
handleSubmit(submitted) ==
  /\ SubmitEnabled(isLoading)
  /\ Len(calls) < MaxOutstanding
  /\ isLoading' = TRUE
  /\ error' = JNull
  /\ itineraryResult' = JNull
  /\ initialUserBudget' = submitted.budget
  /\ initialUserCurrency' = submitted.currency
  /\ LET fullPreferences ==
           FullPreferences(submitted, geolocationEnabled, currentLatitude,
                           currentLongitude, locationError)
     IN calls' = Append(calls, [preferences |-> fullPreferences,
                                request |-> BuildRequest(fullPreferences),
                                settled |-> NotRun, outcome |-> NotRun])
  /\ UNCHANGED <<geoVars, nonApp>>

\* the model call of the k-th call in progress resolves or rejects, and
\* generateItinerary resumes after its await and returns or throws
ModelCallSettles(k, settled) ==
  /\ k \in 1..Len(calls)
  /\ calls[k].settled = NotRun
  /\ calls' = [calls EXCEPT
                 ![k].settled = settled,
                 ![k].outcome = Outcome(calls[k].preferences, settled)]
  /\ UNCHANGED <<itineraryResult, isLoading, error, initialUserBudget,
                 initialUserCurrency, geoVars, nonApp>>

RemoveAt(seq, k) == SubSeq(seq, 1, k - 1) \o SubSeq(seq, k + 1, Len(seq))

\* handleSubmit resumes after its await with setItineraryResult, or with
\* setError(e.message) in its catch block, and runs its finally block
handleSubmitResumes(k) ==
  /\ k \in 1..Len(calls)
  /\ calls[k].settled # NotRun
  /\ LET outcome == calls[k].outcome
     IN /\ IF outcome.kind = "return"
           THEN /\ itineraryResult' = [itineraryData |-> outcome.itineraryData,
                                       sourceUrls |-> outcome.sourceUrls]
                /\ UNCHANGED error
           ELSE /\ error' = JStr(outcome.error.message)
                /\ UNCHANGED itineraryResult
        /\ isLoading' = IsLoadingAfter(outcome)
  /\ calls' = RemoveAt(calls, k)
  /\ UNCHANGED <<initialUserBudget, initialUserCurrency, geoVars, nonApp>>

ANext ==
  \/ GeolocationToggle
  \/ \E coords \in GeoPositions : PositionSuccess(coords)
  \/ \E code \in GeoErrorCodes : PositionError(code)
  \/ \E submitted \in FormPreferences : handleSubmit(submitted)
  \/ \E k \in 1..MaxOutstanding, settled \in OverlapSettlements :
       ModelCallSettles(k, settled)
  \/ \E k \in 1..MaxOutstanding : handleSubmitResumes(k)

SpecApp == AInit /\ [][ANext]_vars

\* a continuation that can run is run: the job queue of the event loop
SpecAppLive ==
  /\ AInit
  /\ [][ANext]_vars
  /\ WF_vars(\E k \in 1..MaxOutstanding : handleSubmitResumes(k))

(***************************************************************************)
(* Properties of generateItinerary (checked under Spec)                    *)
(***************************************************************************)
\* the call has resolved with a reply text and the invocation has settled
Resolved ==
  /\ pc \in {"returned", "thrown"}
  /\ response.t = "resolved"
  /\ response.text.t = "str"

\* the extractor found a document in the reply, and the document fails the
\* shape check
ReplyMismatch ==
  /\ cleanedJsonString # NoMatch
  /\ ShapeInvalid(JSONParse(cleanedJsonString.s).val)

\* the cases the fallback is specified for
FallbackCase ==
  /\ Resolved
  /\ cleanedJsonString = NoMatch \/ (useMapsGrounding /\ ReplyMismatch)

IsFiniteNumber(v) == v.t = "num"
IsAbsent(v) == v.t \in {"null", "undefined"}

\* C1: the mode is Grounded whenever both coordinates are finite numbers and
\* Structured whenever either coordinate is null or absent.
C1_ModeByPresence ==
  pc # "idle" =>
    /\ (IsFiniteNumber(preferences.latitude) /\ IsFiniteNumber(preferences.longitude))
         => useMapsGrounding
    /\ (IsAbsent(preferences.latitude) \/ IsAbsent(preferences.longitude))
         => ~useMapsGrounding

\* C2: when the extractor finds no document, or the document fails the shape
\* check in Grounded mode, generateItinerary returns a fallback result and
\* throws nothing.
C2_FallbackNotSurfaced ==
  FallbackCase =>
    /\ pc = "returned"
    /\ thrown = NotRun
    /\ Get(result.itineraryData, KItinerary) = JArr(<<>>)
    /\ Get(result.itineraryData, KNotes) = JStr(NotesFallback)

C2_Witness ==
  /\ FallbackCase
  /\ useMapsGrounding
  /\ ReplyMismatch
  /\ pc = "returned"

\* C3: in Structured mode a document that fails the shape check makes
\* generateItinerary throw an error, and no result is returned.
C3_StructuredMismatchThrows ==
  (Resolved /\ ~useMapsGrounding /\ ReplyMismatch) =>
    /\ pc = "thrown"
    /\ result = NotRun
    /\ thrown.t = "error"

C3_Witness ==
  /\ Resolved
  /\ ~useMapsGrounding
  /\ ReplyMismatch
  /\ pc = "thrown"
  /\ response.text = JStr(Stringify(DocNoDestination))

\* the parts of a fallback result that do not depend on the reply
FallbackFrame ==
  /\ pc = "returned"
  /\ Get(result.itineraryData, KDestination) = JStr(preferences.destination)
  /\ Get(result.itineraryData, KDuration) = JNum(preferences.duration)
  /\ Get(result.itineraryData, KItinerary) = JArr(<<>>)
  /\ Get(result.itineraryData, KPackingSuggestions) = JArr(<<>>)
  /\ result.sourceUrls = <<>>

\* C4 as claimed: every fallback result copies destination and duration from
\* the preferences, has the full reply text verbatim as overview, and an
\* empty itinerary, packingSuggestions and sourceUrls.
C4_FallbackVerbatim ==
  FallbackCase =>
    /\ FallbackFrame
    /\ Get(result.itineraryData, KOverview) = response.text

\* C4 as amended: the overview is the reply text with the white space at its
\* two ends removed; the rest as claimed, also when the response carried
\* grounding chunks.
C4_FallbackTrimmed ==
  FallbackCase =>
    /\ FallbackFrame
    /\ Get(result.itineraryData, KOverview) = JStr(trim(response.text.s))

C4_Witness ==
  /\ FallbackCase
  /\ pc = "returned"
  /\ response.text = JStr(ProsePadded)
  /\ Get(result.itineraryData, KOverview) = JStr(ProseOnly)
  /\ SourceUrls(response.groundingChunks) # <<>>
  /\ result.sourceUrls = <<>>

\* the reply held a document that passes the shape check
ValidatedCase ==
  /\ Resolved
  /\ cleanedJsonString # NoMatch
  /\ ~ReplyMismatch

\* the grounding entries of the response, their kinds, and how many
\* Citations each stands for
GroundingEntries ==
  IF response.groundingChunks.t = "arr" THEN response.groundingChunks.a ELSE <<>>
EntryKind(chunk) ==
  IF chunk.web.t = "web" THEN "web"
  ELSE IF chunk.maps.t = "maps" THEN "map"
  ELSE "other"
ReviewSnippets(chunk) ==
  IF chunk.maps.reviewSnippets.t = "arr" THEN chunk.maps.reviewSnippets.a ELSE <<>>
EntryCount(chunk) ==
  CASE EntryKind(chunk) = "web" -> 1
    [] EntryKind(chunk) = "map" -> 1 + Len(ReviewSnippets(chunk))
    [] OTHER -> 0

RECURSIVE CountBefore(_, _)
CountBefore(chunks, i) ==
  IF i = 1 THEN 0 ELSE CountBefore(chunks, i - 1) + EntryCount(chunks[i - 1])

\* C8: on the validated path sourceUrls lists the grounding entries in source
\* order: one Citation per web entry, for a map entry the place and then its
\* review snippets in snippet order, nothing for other entries, and nothing
\* at all without grounding metadata.
C8_CitationsInOrder ==
  ValidatedCase =>
    LET chunks == GroundingEntries
        urls == result.sourceUrls
    IN /\ pc = "returned"
       /\ Len(urls) = CountBefore(chunks, Len(chunks) + 1)
       /\ \A i \in 1..Len(chunks) :
            LET at == CountBefore(chunks, i)
            IN /\ EntryKind(chunks[i]) = "web" => urls[at + 1].uri = chunks[i].web.uri
               /\ EntryKind(chunks[i]) = "map" =>
                    /\ urls[at + 1].uri = chunks[i].maps.uri
                    /\ \A k \in 1..Len(ReviewSnippets(chunks[i])) :
                         urls[at + 1 + k].uri = ReviewSnippets(chunks[i])[k].uri

C8_Witness ==
  /\ ValidatedCase
  /\ pc = "returned"
  /\ GroundingEntries = <<ChunkPlaceReviews, ChunkWeb>>
  /\ Len(result.sourceUrls) = 4
  /\ result.sourceUrls[3].uri = Uri(5)

\* C9: when extraction and validation succeed, in either mode, itineraryData
\* is the parsed reply document with no field changed: a reply that is the
\* rendering of a document yields that document, its duration and the order
\* of its day plans included.
C9_DocumentUntouched ==
  ValidatedCase =>
    /\ pc = "returned"
    /\ result.itineraryData = JSONParse(cleanedJsonString.s).val
    /\ \A i \in 1..Len(DocValues) :
         response.text = JStr(Stringify(DocValues[i]))
           => result.itineraryData = DocValues[i]

C9_Witness ==
  /\ ValidatedCase
  /\ pc = "returned"
  /\ useMapsGrounding
  /\ response.text # JStr(Stringify(DocFull))
  /\ result.itineraryData = DocFull
  /\ Get(result.itineraryData, KDuration) # JNum(preferences.duration)
  /\ Get(result.itineraryData, KItinerary) = JArr(<<DayPlan(2), DayPlan(1)>>)

\* the model call failed, and the failure carries the authorization signature
ModelCallFailed == pc = "thrown" /\ response.t = "rejected"
CarriesSignature(value) ==
  /\ MessageOf(value).t = "str"
  /\ includes(MessageOf(value).s, EntityNotFound)

\* C10: whatever the model call rejects with, generateItinerary throws an
\* error with a user-facing message: the credential-selection message when the
\* failure carries the authorization signature, a localized generic message
\* otherwise.
C10_FailureMessages ==
  ModelCallFailed =>
    /\ thrown.name = "Error"
    /\ IF CarriesSignature(response.value)
       THEN thrown.message = MsgApiKey
       ELSE \/ thrown.message = MsgUnknown
            \/ StartsAt(thrown.message, MsgGeminiPrefix, 1)

\* C11: each invocation of generateItinerary issues exactly one call to the
\* model client, before any extraction step, and issues no further call once
\* the first has resolved or rejected.
C11_OneModelCall ==
  /\ pc = "idle" => issued = <<>>
  /\ pc # "idle" => issued = <<request>>
  /\ pc = "awaiting" =>
       /\ response = NotRun
       /\ rawResponseText = NotRun
       /\ cleanedJsonString = NotRun
  /\ cleanedJsonString # NotRun => Len(issued) = 1

C11_Witness ==
  /\ pc = "thrown"
  /\ response.t = "rejected"
  /\ response.value = JError("Error", WFetchFailed)
  /\ issued = <<request>>

HasTool(req, tool) == \E k \in 1..Len(req.tools) : req.tools[k] = tool
HasCoordinateSentence(req) ==
  \E k \in 1..Len(req.prompt) : req.prompt[k] = PromptLatitude
HasRetrievalCoordinates(req) == req.toolConfig # JUndefined

\* C12: in every request the mode-dependent parts agree: the location tool,
\* the retrieval coordinates and the coordinate sentence of the prompt are
\* present exactly in Grounded mode, the output schema is requested exactly in
\* Structured mode and never together with the location tool, and the search
\* tool is attached in both modes.
C12_RequestPartsAgree ==
  pc # "idle" =>
    /\ HasTool(request, GoogleMaps) <=> useMapsGrounding
    /\ HasRetrievalCoordinates(request) <=> useMapsGrounding
    /\ HasRetrievalCoordinates(request) =>
         /\ request.toolConfig.latitude = preferences.latitude
         /\ request.toolConfig.longitude = preferences.longitude
    /\ HasCoordinateSentence(request) <=> useMapsGrounding
    /\ request.responseSchema <=> ~useMapsGrounding
    /\ (request.responseMimeType = "application/json") <=> ~useMapsGrounding
    /\ ~(request.responseSchema /\ HasTool(request, GoogleMaps))
    /\ HasTool(request, GoogleSearch)

C12_Witness ==
  /\ pc = "awaiting"
  /\ useMapsGrounding
  /\ HasTool(request, GoogleMaps)
  /\ HasTool(request, GoogleSearch)
  /\ ~request.responseSchema
  /\ preferences.latitude = JNum(-6)

\* the document the shape check was applied to, and its verdict as the
\* outcome shows it: an accepted document is returned as the itinerary
ParsedReply == JSONParse(cleanedJsonString.s).val
ShapeChecked == Resolved /\ cleanedJsonString # NoMatch
Accepted == pc = "returned" /\ result.itineraryData = ParsedReply

\* C14 as stated: a candidate is accepted exactly when its destination field
\* is present and not empty and its itinerary field is a sequence.
C14_ShapeByPresence ==
  ShapeChecked =>
    (Accepted <=>
       LET destination == Get(ParsedReply, KDestination)
       IN /\ destination.t \notin {"undefined", "null"}
          /\ destination # JStr(<<>>)
          /\ Get(ParsedReply, KItinerary).t = "arr")

\* C14 as amended: a candidate is accepted exactly when its destination field
\* is present and is neither an empty text, nor zero, nor false, and its
\* itinerary field is a sequence; an empty sequence is accepted, a top-level
\* array or a document lacking either field is refused, and no other field
\* changes the verdict.
C14_ShapeByTruthiness ==
  ShapeChecked =>
    (Accepted <=>
       LET destination == Get(ParsedReply, KDestination)
       IN /\ ParsedReply.t = "obj"
          /\ destination.t \notin {"undefined", "null"}
          /\ destination \notin {JStr(<<>>), JNum(0), JBool(FALSE)}
          /\ Get(ParsedReply, KItinerary).t = "arr")

C14_Witness ==
  /\ ShapeChecked
  /\ Accepted
  /\ useMapsGrounding
  /\ Get(ParsedReply, KItinerary) = JArr(<<>>)
  /\ Get(ParsedReply, KDestination) = JStr(WKyoto)

(***************************************************************************)
(* Properties of overlapping invocations (checked under SpecOverlap)       *)
(***************************************************************************)
Finished(i) == frames[i].pc = "settled"

HasCoordinate(v) == v.t \notin {"undefined", "null"}

\* C16: every preference model App passes to generateItinerary has both
\* coordinates or neither, whatever toggles, geolocation callbacks and
\* submissions came before; and a submission attaches coordinates only when
\* geolocation is enabled and no location error is recorded at that time.
C16_CoordinatesPaired ==
  [][\A k \in 1..Len(calls') :
       /\ HasCoordinate(calls'[k].preferences.latitude)
            <=> HasCoordinate(calls'[k].preferences.longitude)
       /\ (k > Len(calls) /\ HasCoordinate(calls'[k].preferences.latitude))
            => geolocationEnabled /\ locationError = JNull]_vars

C16_Witness ==
  /\ calls # <<>>
  /\ calls[1].preferences.latitude = JNum(-6)
  /\ calls[1].preferences.longitude = JNum(107)
  /\ pendingPositions > 0

\* C19: error and itineraryResult are never both set; both are null from the
\* start of a submission until its call completes; and at most one call of
\* generateItinerary is in progress, since the form cannot be submitted while
\* isLoading is true.
C19_ErrorOrResult ==
  /\ ~(error # JNull /\ itineraryResult # JNull)
  /\ calls # <<>> => (isLoading /\ error = JNull /\ itineraryResult = JNull)
  /\ Len(calls) <= 1

C19_Witness ==
  /\ calls = <<>>
  /\ ~isLoading
  /\ error # JNull
  /\ itineraryResult = JNull
  /\ initialUserBudget = 500

\* C20: once the model call of a submission has resolved or rejected,
\* isLoading becomes false again, on the success path, the fallback path and
\* every error path.
C20_LoadingEnds ==
  (\E k \in 1..Len(calls) : calls[k].settled # NotRun) ~> (isLoading = FALSE)

C20_Witness ==
  /\ ~isLoading
  /\ calls = <<>>
  /\ error = JStr(MsgCannotRead)

\* C21: while geolocation is disabled the stored latitude and longitude are
\* null and isGettingLocation is false, also when the success or error
\* callback of a request made earlier arrives after the toggle was switched
\* off.
C21_DisabledMeansCleared ==
  ~geolocationEnabled =>
    /\ currentLatitude = JNull
    /\ currentLongitude = JNull
    /\ isGettingLocation = FALSE

(***************************************************************************)
(* Properties of extractJsonFromString (checked under SpecExtract)         *)
(***************************************************************************)
Extracted == xpc \in {"once", "twice"}

IsDocument(text) == JSONParse(text).ok
IsObjectOrArray(text) == IsDocument(text) /\ JSONParse(text).val.t \in {"obj", "arr"}

\* a non-empty destination text and an itinerary sequence
HasItineraryShape(v) ==
  /\ v.t = "obj"
  /\ Get(v, KDestination).t = "str"
  /\ Get(v, KDestination).s # <<>>
  /\ Get(v, KItinerary).t = "arr"

\* the extractor returns the text itself, and the shape check accepts the
\* document when it has the itinerary shape
ReturnedUnchanged ==
  /\ extracted = Candidate(input)
  /\ HasItineraryShape(JSONParse(input).val)
       => ~ShapeInvalid(JSONParse(extracted.s).val)

\* C5 as claimed: a reply text that is a valid JSON document is returned
\* unchanged, and accepted by the shape check when it has the itinerary shape.
C5_DocumentUnchanged ==
  (Extracted /\ IsDocument(input)) => ReturnedUnchanged

\* C5 as amended: a reply text that is a JSON object or array, with no white
\* space before or after it and no fence marker inside it, is returned
\* unchanged, and accepted by the shape check when it has the itinerary shape.
C5_ObjectOrArrayUnchanged ==
  (Extracted /\ IsObjectOrArray(input) /\ input = trim(input)
     /\ ~includes(input, Fence))
    => ReturnedUnchanged

C5_Witness ==
  /\ xpc = "once"
  /\ input = Stringify(DocFull)
  /\ extracted = Candidate(input)
  /\ ~ShapeInvalid(JSONParse(extracted.s).val)

HasNone(text, chars) == \A k \in 1..Len(text) : text[k] \notin chars

\* the closing delimiter of the kind of document doc is
CloserOf(doc) == IF Head(doc) = "{" THEN "}" ELSE "]"

\* C6 as claimed: from prose, a fenced block with a language tag around a
\* JSON document, and prose, the extractor returns exactly the document,
\* whatever the prose holds.
C6_FencedDocument ==
  Extracted =>
    \A pre \in PreProse, tag \in LangTags :
      StartsAt(input, pre \o Fence \o tag \o NewLine, 1) =>
        \A doc \in DocTexts, post \in PostProse :
          (input = Fenced(pre, tag, doc, post) /\ IsDocument(doc))
            => extracted = Candidate(doc)

\* C6 as amended: the same, provided the document is a JSON object or array
\* that holds no fence marker, the prose before the block holds no opening
\* brace or bracket, and the prose after it holds no closing delimiter of the
\* document's kind.
C6_FencedObjectOrArray ==
  Extracted =>
    \A pre \in PreProse, tag \in LangTags :
      StartsAt(input, pre \o Fence \o tag \o NewLine, 1) =>
        \A doc \in DocTexts, post \in PostProse :
          (/\ input = Fenced(pre, tag, doc, post)
           /\ IsObjectOrArray(doc)
           /\ ~includes(doc, Fence)
           /\ HasNone(pre, {"{", "["})
           /\ HasNone(post, {CloserOf(doc)}))
            => extracted = Candidate(doc)

C6_Witness ==
  /\ xpc = "once"
  /\ \E pre \in PreProse, post \in PostProse :
       /\ pre # <<>>
       /\ post # <<>>
       /\ input = Fenced(pre, TagJson, Stringify(DocFull), post)
  /\ extracted = Candidate(Stringify(DocFull))

\* C7: applied to its own successful output, the extractor returns that
\* output again.
C7_Idempotent == xpc = "twice" => reextracted = extracted

C7_Witness ==
  /\ xpc = "twice"
  /\ reextracted = extracted
  /\ extracted.s # input
  /\ includes(input, Fence)

\* the positions of the characters of chars in text
Positions(text, chars) == {p \in 1..Len(text) : text[p] \in chars}
Least(ps) == CHOOSE p \in ps : \A q \in ps : p <= q
Greatest(ps) == CHOOSE p \in ps : \A q \in ps : q <= p

\* C13: for every input the extractor returns the single slice of the text
\* left by fence removal: from the first opening delimiter (brace or bracket,
\* whichever comes first) to the last closing delimiter of the same kind, when
\* that slice parses; no-match when there is no opening delimiter, when no
\* closing delimiter of that kind stands after it, or when the slice does not
\* parse (nothing is repaired).
C13_SingleSlice ==
  Extracted =>
    LET text == RemoveFences(input)
        openers == Positions(text, {"{", "["})
    IN IF openers = {} THEN extracted = NoMatch
       ELSE LET first == Least(openers)
                closers ==
                  Positions(text, {IF text[first] = "{" THEN "}" ELSE "]"})
            IN IF \A p \in closers : p < first THEN extracted = NoMatch
               ELSE LET slice == SubSeq(text, first, Greatest(closers))
                    IN IF JSONParse(slice).ok
                       THEN extracted = Candidate(slice)
                       ELSE extracted = NoMatch

\* a slice that a repair could rescue is given up
C13_Witness ==
  /\ xpc = "once"
  /\ extracted = NoMatch
  /\ Len(input) > 2
  /\ Head(input) = "{"
  /\ input[Len(input)] = "}"
  /\ \E k \in 2..(Len(input) - 1) : JSONParse(SubSeq(input, 1, k)).ok

StructuredPreferences == Prefs(WKyoto, 3, 500, WUSD, JUndefined, JUndefined)

\* C18: every result of the extractor other than no-match starts with an
\* opening brace or bracket, ends with the matching closing delimiter, holds
\* no fence marker and parses; so the parse that generateItinerary makes of it
\* succeeds, and in either mode the fallback or error of the parse-and-check
\* block is reached only by a document that fails the shape check.
C18_ResultWellFormed ==
  (Extracted /\ extracted # NoMatch) =>
    LET text == extracted.s
        parsed == JSONParse(text)
    IN /\ text # <<>>
       /\ Head(text) \in {"{", "["}
       /\ text[Len(text)] = CloserOf(text)
       /\ ~includes(text, Fence)
       /\ parsed.ok
       /\ \A mode \in BOOLEAN :
            AfterExtraction(StructuredPreferences, mode,
                            Response(JStr(input), JUndefined), trim(input),
                            extracted)
              = OnInvalid(StructuredPreferences, mode, trim(input))
              => ShapeInvalid(parsed.val)

C18_Witness ==
  /\ xpc = "once"
  /\ extracted # NoMatch
  /\ extracted.s # input
  /\ includes(input, Fence)
  /\ ShapeInvalid(JSONParse(extracted.s).val)

(***************************************************************************)
(* Properties of the extractor of the second copy (checked under           *)
(* SpecExtractDuplicate)                                                   *)
(***************************************************************************)
\* C17: the extractor of the second copy returns a reply that is already a
\* JSON object or array (with no white space around it) unchanged, and applied
\* to its own successful output it returns that output again.
C17_DuplicateContract ==
  /\ (Extracted /\ input = trim(input) /\ IsObjectOrArray(input))
       => extracted = Candidate(input)
  /\ xpc = "twice" => reextracted = extracted

====
